---- MODULE Spec2Model ----
(***************************************************************************)
(* Model of cv_triage_pipeline.py: the resume screening pipeline.          *)
(*                                                                         *)
(* Python strings are sequences of one-character strings, so that lower(), *)
(* strip(), the `in` substring test and the patterns of re are computed    *)
(* character by character.  A missing pandas cell (NaN) is the one-element *)
(* sequence <<"NaN">>, which no text can equal because its element is not  *)
(* a single character.                                                     *)
(***************************************************************************)
EXTENDS Integers, Sequences, FiniteSets, TLC

VARIABLES
    keywords_file,   \* the file KEYWORDS_FILE: whether it exists, and its lines
    input_dir,       \* os.listdir(INPUT_DIR): sequence of [file_name, doc]
    survey_file,     \* the file SURVEY_RESPONSES: whether it exists and parses, and its table
    environ,         \* os.environ after load_dotenv(): the variables the e-mail functions read
    pc,              \* position of main()
    keywords,        \* main: keywords
    pdf_files,       \* monitor_input_folder: pdf_files
    idx,             \* monitor_input_folder: position of the for loop (1-based)
    resume_data,     \* monitor_input_folder: resume_data
    extract_calls,   \* number of extract_text_from_pdf calls per listed file
    survey_df,       \* main: survey_df (None or a table)
    classified_df,   \* main: classified_df, a sequence of rows
    sent,            \* the calls of send_survey_email and send_interview_email that
                     \* returned, in order, each with its return value
    call,            \* a single function call under test: its name and arguments
    ret              \* the value that call returned

vars == <<keywords_file, input_dir, survey_file, environ, pc, keywords, pdf_files, idx,
          resume_data, extract_calls, survey_df, classified_df, sent, call, ret>>

----------------------------------------------------------------------------
(* Bounds of the model. *)

\* files listed in INPUT_DIR
MaxFiles == 3
\* rows of the survey table
MaxRows == 2
\* largest keyword_count given to the scoring function on its own
MaxKc == 6
\* longest keyword list given to the keyword matcher on its own
MaxKeywords == 3
\* most pieces that a text given to the section code on its own is made of
MaxPieces == 3
\* most lines that a text given to the contact code on its own has
MaxLines == 6

----------------------------------------------------------------------------
(* Python str primitives. *)

UpperLetters == <<"A","B","C","D","E","F","G","H","I","J","K","L","M",
                  "N","O","P","Q","R","S","T","U","V","W","X","Y","Z">>
LowerLetters == <<"a","b","c","d","e","f","g","h","i","j","k","l","m",
                  "n","o","p","q","r","s","t","u","v","w","x","y","z">>
Digits == {"0","1","2","3","4","5","6","7","8","9"}
Whitespace == {" ", "\n", "\t", "\r"}

Range(s) == {s[i] : i \in 1..Len(s)}

\* min(a, b)
Min(a, b) == IF a <= b THEN a ELSE b

IsUpper(c) == \E i \in 1..26 : UpperLetters[i] = c
IsLower(c) == \E i \in 1..26 : LowerLetters[i] = c

\* str.lower(), one character
LowerChar(c) ==
    IF IsUpper(c) THEN LowerLetters[CHOOSE i \in 1..26 : UpperLetters[i] = c] ELSE c

\* str.lower()
Lower(s) == [i \in 1..Len(s) |-> LowerChar(s[i])]

\* str.strip()
Strip(s) ==
    LET keep == {i \in 1..Len(s) : s[i] \notin Whitespace}
    IN  IF keep = {} THEN <<>>
        ELSE LET lo == CHOOSE i \in keep : \A j \in keep : i <= j
                 hi == CHOOSE i \in keep : \A j \in keep : j <= i
             IN  SubSeq(s, lo, hi)

\* sub in s
Contains(sub, s) ==
    \E i \in 1..(Len(s) - Len(sub) + 1) : SubSeq(s, i, i + Len(sub) - 1) = sub

\* s.endswith(suffix)
EndsWith(s, suffix) ==
    /\ Len(suffix) <= Len(s)
    /\ SubSeq(s, Len(s) - Len(suffix) + 1, Len(s)) = suffix

RECURSIVE Join(_, _)
\* sep.join(parts)
Join(sep, parts) ==
    IF parts = <<>> THEN <<>>
    ELSE IF Len(parts) = 1 THEN parts[1]
    ELSE parts[1] \o sep \o Join(sep, Tail(parts))

RECURSIVE Concat(_)
\* text = ""; for page in doc: text += page
Concat(parts) ==
    IF parts = <<>> THEN <<>> ELSE parts[1] \o Concat(Tail(parts))

\* pandas: the missing value, and pd.notna
NaN == <<"NaN">>
notna(v) == v # NaN

----------------------------------------------------------------------------
(* The inputs of a run: what the three sources on disk may hold. *)

kw_cook == <<"c","o","o","k">>
kw_cashier == <<"c","a","s","h","i","e","r">>

\* keywords.txt with two terms, written with stray case, blanks and an empty line
KeywordLinesTwo ==
    << <<" ","C","o","o","k"," ","\n">>, <<"\n">>, <<"C","A","S","H","I","E","R">> >>
\* keywords.txt with one term
KeywordLinesOne == << <<"c","o","o","k","\n">> >>
\* keywords.txt that exists and holds no term
KeywordLinesBlank == << <<"\n">>, <<" "," ","\n">> >>

KeywordFiles ==
    {[exists |-> FALSE, lines |-> <<>>]}
    \cup {[exists |-> TRUE, lines |-> l] :
            l \in {KeywordLinesBlank, KeywordLinesOne, KeywordLinesTwo}}

MailAnn == <<"a","@","x",".","c","o","m">>
MailZed == <<"z","@","q",".","i","e">>

\* a resume with an e-mail address and the keywords cook, cashier, restaurant
TextAnn ==
    <<"A","n","n"," ","L","e","e","\n","a","@","x",".","c","o","m","\n","C","o","o","k",
      ","," ","C","a","s","h","i","e","r",","," ","r","e","s","t","a","u","r","a","n","t">>
\* a two-page resume without e-mail address and with six of the default keywords
TextBoPage1 ==
    <<"B","o"," ","R","a","y","\n","R","e","s","t","a","u","r","a","n","t"," ","a","t",
      "t","e","n","d","a","n","t",","," ","c","o","o","k",",">>
TextBoPage2 ==
    <<" ","B","u","r","g","e","r"," ","K","i","n","g",";"," ","f","a","s","t"," ","f","o",
      "o","d"," ","c","u","s","t","o","m","e","r"," ","s","e","r","v","i","c","e">>

\* a document: whether fitz.open succeeds, and the text of each page
DocBroken == [opens |-> FALSE, pages |-> <<>>]
DocScanned == [opens |-> TRUE, pages |-> << <<>>, <<>> >>]
DocAnn == [opens |-> TRUE, pages |-> <<TextAnn>>]
DocBo == [opens |-> TRUE, pages |-> <<TextBoPage1, TextBoPage2>>]

Docs == {DocBroken, DocScanned, DocAnn, DocBo}

\* the directory entries, in listing order; the second one is not a PDF
FileNames ==
    << <<"a",".","p","d","f">>, <<"n","o","t","e","s",".","t","x","t">>,
       <<"b",".","P","D","F">>, <<"c",".","p","d","f">>, <<"d",".","p","d","f">> >>

\* the listings of INPUT_DIR with n entries
Listings(n) ==
    {l \in [1..n -> [file_name : {FileNames[i] : i \in 1..n}, doc : Docs]] :
        \A i \in 1..n :
            /\ l[i].file_name = FileNames[i]
            /\ ~EndsWith(Lower(FileNames[i]), <<".","p","d","f">>) => l[i].doc = DocBroken}

SurveyColumns == {"email", "availability", "courses", "visa"}

\* survey answers: two for Ann's address, one for an address no resume has
SurveyRowFull ==
    [email |-> MailAnn,
     availability |-> <<"f","u","l","l"," ","a","v","a","i","l","a","b","i","l","i","t","y">>,
     courses |-> <<"H","A","C","C","P"," ","c","e","r","t","i","f","i","e","d">>,
     visa |-> <<"i","r","i","s","h">>]
SurveyRowPartial ==
    [email |-> MailAnn,
     availability |-> <<"M","o","r","n","i","n","g">>,
     courses |-> NaN,
     visa |-> <<"S","t","a","m","p"," ","2">>]
SurveyRowOther ==
    [email |-> MailZed,
     availability |-> <<"n","i","g","h","t">>,
     courses |-> <<"n","o","n","e">>,
     visa |-> <<"s","t","a","m","p"," ","4">>]

SurveyRows == {SurveyRowFull, SurveyRowPartial, SurveyRowOther}

\* a data frame: its columns and its rows; None is kept apart from the empty frame
NoneFrame == [is_none |-> TRUE, columns |-> {}, rows |-> <<>>]
Frame(columns, rows) == [is_none |-> FALSE, columns |-> columns, rows |-> rows]

\* the row r without the column c
WithoutColumn(r, c) == [k \in (DOMAIN r) \ {c} |-> r[k]]

\* the CSV tables of at most n rows, and the one-row tables that lack a column
Tables(n) ==
    {Frame(SurveyColumns, r) : r \in UNION {[1..m -> SurveyRows] : m \in 0..n}}
    \cup {Frame(SurveyColumns \ {c}, <<WithoutColumn(SurveyRowFull, c)>>) : c \in SurveyColumns}

\* sample_responses.csv: missing, unparsable, or a table
SurveyFiles ==
    {[exists |-> FALSE, parses |-> FALSE, table |-> NoneFrame],
     [exists |-> TRUE, parses |-> FALSE, table |-> NoneFrame]}
    \cup {[exists |-> TRUE, parses |-> TRUE, table |-> t] : t \in Tables(MaxRows)}

\* an environment variable that is not set
Unset == <<"None">>

\* the environment: SMTP_PORT is not set, or is set to a service name
Environs == {[SMTP_PORT |-> Unset], [SMTP_PORT |-> <<"s","m","t","p">>]}

----------------------------------------------------------------------------
(* load_keywords *)

DefaultKeywords ==
    << <<"a","t","t","e","n","d","a","n","t">>,
       kw_cook,
       <<"f","a","s","t"," ","f","o","o","d">>,
       <<"m","c","d","o","n","a","l","d","'","s">>,
       <<"b","u","r","g","e","r"," ","k","i","n","g">>,
       <<"c","u","s","t","o","m","e","r"," ","s","e","r","v","i","c","e">>,
       <<"f","o","o","d"," ","h","a","n","d","l","i","n","g">>,
       kw_cashier,
       <<"r","e","s","t","a","u","r","a","n","t">> >>

RECURSIVE StrippedLowerLines(_)
\* [line.strip().lower() for line in f if line.strip()]
StrippedLowerLines(lines) ==
    IF lines = <<>> THEN <<>>
    ELSE (IF Strip(Head(lines)) # <<>> THEN <<Lower(Strip(Head(lines)))>> ELSE <<>>)
         \o StrippedLowerLines(Tail(lines))

load_keywords(file) ==
    IF file.exists THEN StrippedLowerLines(file.lines)
    ELSE DefaultKeywords

----------------------------------------------------------------------------
(* extract_text_from_pdf *)

extract_text_from_pdf(doc) ==
    IF doc.opens THEN Concat(doc.pages) ELSE <<>>

----------------------------------------------------------------------------
(* Regular expressions of the re module.  A pattern is a sequence of atoms; *)
(* an atom is a set of characters with the least and the greatest number of *)
(* repetitions of its greedy quantifier, or the assertion \b.  A group of   *)
(* alternatives is written as the sequence of its flat patterns in the      *)
(* order in which the matcher tries them.                                   *)

Letters == Range(UpperLetters) \cup Range(LowerLetters)
\* \w
WordChars == Letters \cup Digits \cup {"_"}

\* X{min,max}
Rep(chars, min, max) ==
    [chars |-> chars, min |-> min, max |-> max, bounded |-> TRUE, boundary |-> FALSE]
\* X{min,}: X* and X+ are X{0,} and X{1,}
AtLeast(chars, min) ==
    [chars |-> chars, min |-> min, max |-> min, bounded |-> FALSE, boundary |-> FALSE]
\* one character of a set
One(chars) == Rep(chars, 1, 1)
\* \b
Boundary == [chars |-> {}, min |-> 0, max |-> 0, bounded |-> TRUE, boundary |-> TRUE]
\* a literal word under re.IGNORECASE
Literal(word) == [i \in 1..Len(word) |-> One({c \in Letters \cup {word[i]} :
                                                LowerChar(c) = LowerChar(word[i])})]

\* \b between positions p-1 and p
WordBoundary(s, p) ==
    (p - 1 \in 1..Len(s) /\ s[p - 1] \in WordChars) # (p \in 1..Len(s) /\ s[p] \in WordChars)

RECURSIVE run_length(_, _, _, _)
\* how many characters of s from position pos on are in chars, up to most
run_length(s, chars, pos, most) ==
    IF most = 0 \/ pos > Len(s) \/ s[pos] \notin chars THEN 0
    ELSE 1 + run_length(s, chars, pos + 1, most - 1)

\* the first of two attempts that succeeds; 0 is the attempt that failed
or_else(attempt, next_attempt) == IF attempt # 0 THEN attempt ELSE next_attempt

RECURSIVE match_from(_, _, _, _)
RECURSIVE repeat(_, _, _, _, _)
\* the atom pat[k] taken n times at position pos, then n - 1 times, down to its least
\* number of repetitions: a greedy quantifier and its backtracking
repeat(s, pat, k, pos, n) ==
    IF n < pat[k].min THEN 0
    ELSE or_else(match_from(s, pat, k + 1, pos + n), repeat(s, pat, k, pos, n - 1))

\* the atoms pat[k..] matched at position pos of s: the position after the match
\* the backtracking matcher finds first, or 0 when there is none
match_from(s, pat, k, pos) ==
    IF k > Len(pat) THEN pos
    ELSE IF pat[k].boundary
    THEN (IF WordBoundary(s, pos) THEN match_from(s, pat, k + 1, pos) ELSE 0)
    ELSE repeat(s, pat, k, pos,
                run_length(s, pat[k].chars, pos,
                           IF pat[k].bounded THEN pat[k].max ELSE Len(s)))

RECURSIVE match_at(_, _, _, _)
\* the first of the patterns pats[q..] that matches at position pos: the position
\* after its match, or 0
match_at(s, pats, q, pos) ==
    IF q > Len(pats) THEN 0
    ELSE or_else(match_from(s, pats[q], 1, pos), match_at(s, pats, q + 1, pos))

\* the match object of the leftmost of the positions starts where a pattern
\* matches: <<first, last>>, or <<>> when there is no such position
leftmost(starts) == CHOOSE i \in starts : \A j \in starts : i <= j
match_object(s, pats, starts) ==
    IF starts = {} THEN <<>>
    ELSE <<leftmost(starts), match_at(s, pats, 1, leftmost(starts)) - 1>>

\* re.search from position from on
search(s, pats, from) ==
    match_object(s, pats, {i \in from..Len(s) : match_at(s, pats, 1, i) # 0})

\* m.group(0) if m else ""
group0(s, m) == IF m = <<>> THEN <<>> ELSE SubSeq(s, m[1], m[2])

RECURSIVE split_from(_, _, _)
\* the piece of s before the match m, and the pieces after it
split_at(s, pats, from, m) ==
    IF m = <<>> THEN <<SubSeq(s, from, Len(s))>>
    ELSE <<SubSeq(s, from, m[1] - 1)>> \o split_from(s, pats, m[2] + 1)

\* re.split: the pieces of s between the successive matches
split_from(s, pats, from) == split_at(s, pats, from, search(s, pats, from))

RECURSIVE SplitOn(_, _)
\* s.split(sep) for a separator of one character
SplitOn(s, sep) ==
    IF \A i \in 1..Len(s) : s[i] # sep THEN <<s>>
    ELSE LET i == CHOOSE x \in 1..Len(s) : s[x] = sep /\ \A y \in 1..(x - 1) : s[y] # sep
         IN  <<SubSeq(s, 1, i - 1)>> \o SplitOn(SubSeq(s, i + 1, Len(s)), sep)

RECURSIVE Words(_)
\* s.split(): the runs of characters that are not white space
Words(s) ==
    LET t == Strip(s)
    IN  IF t = <<>> THEN <<>>
        ELSE IF \A i \in 1..Len(t) : t[i] \notin Whitespace THEN <<t>>
        ELSE LET i == CHOOSE x \in 1..Len(t) :
                          t[x] \in Whitespace /\ \A y \in 1..(x - 1) : t[y] \notin Whitespace
             IN  <<SubSeq(t, 1, i - 1)>> \o Words(SubSeq(t, i + 1, Len(t)))

\* s[:n]
Take(s, n) == SubSeq(s, 1, Min(n, Len(s)))

----------------------------------------------------------------------------
(* extract_contact_info *)

\* \b[A-Za-z0-9._%+-]+@[A-Za-z0-9.-]+\.[A-Z|a-z]{2,}\b
email_pattern ==
    << <<Boundary,
         AtLeast(Letters \cup Digits \cup {".", "_", "%", "+", "-"}, 1),
         One({"@"}),
         AtLeast(Letters \cup Digits \cup {".", "-"}, 1),
         One({"."}),
         AtLeast(Letters \cup {"|"}, 2),
         Boundary>> >>

\* [-.\s]?
OptionalSeparator == Rep({"-", "."} \cup Whitespace, 0, 1)

\* \(?\d{3}\)?[-.\s]?\d{3}[-.\s]?\d{4}\b
phone_digits ==
    <<Rep({"("}, 0, 1), Rep(Digits, 3, 3), Rep({")"}, 0, 1), OptionalSeparator,
      Rep(Digits, 3, 3), OptionalSeparator, Rep(Digits, 4, 4), Boundary>>

\* \b(?:\+\d{1,3}[-.\s]?)?\(?\d{3}\)?[-.\s]?\d{3}[-.\s]?\d{4}\b: with the
\* optional group, then without it
phone_pattern ==
    << <<Boundary, One({"+"}), Rep(Digits, 1, 3), OptionalSeparator>> \o phone_digits,
       <<Boundary>> \o phone_digits >>

\* email = re.search(email_pattern, text); email.group(0) if email else ""
extract_email(text) == group0(text, search(text, email_pattern, 1))

\* phone = re.search(phone_pattern, text); phone.group(0) if phone else ""
extract_phone(text) == group0(text, search(text, phone_pattern, 1))

\* the test of a line in the loop over lines[:5]
is_name_line(line) ==
    /\ Strip(line) # <<>>
    /\ search(line, email_pattern, 1) = <<>>
    /\ search(line, phone_pattern, 1) = <<>>

RECURSIVE name_loop(_, _)
\* for line in lines[:5]: the first three words of the first line that passes the test
name_loop(lines, i) ==
    IF i > Min(5, Len(lines)) THEN <<>>
    ELSE IF is_name_line(lines[i]) THEN Join(<<" ">>, Take(Words(lines[i]), 3))
    ELSE name_loop(lines, i + 1)

\* lines = text.strip().split('\n'), and the loop
extract_name(text) == name_loop(SplitOn(Strip(text), "\n"), 1)

extract_contact_info(text) ==
    [name |-> extract_name(text), email |-> extract_email(text), phone |-> extract_phone(text)]

----------------------------------------------------------------------------
(* extract_experience_and_skills *)

SectionHeaders ==
    << <<"E","X","P","E","R","I","E","N","C","E">>,
       <<"S","K","I","L","L","S">>,
       <<"E","D","U","C","A","T","I","O","N">>,
       <<"W","O","R","K"," ","H","I","S","T","O","R","Y">>,
       <<"E","M","P","L","O","Y","M","E","N","T">>,
       <<"P","R","O","F","E","S","S","I","O","N","A","L"," ",
         "E","X","P","E","R","I","E","N","C","E">> >>

\* \n\s*(?:EXPERIENCE|...|PROFESSIONAL EXPERIENCE)(?:\s*|:) under re.IGNORECASE:
\* per header, the tail \s* and then the tail ":"
section_pattern ==
    [q \in 1..(2 * Len(SectionHeaders)) |->
        <<One({"\n"}), AtLeast(Whitespace, 0)>>
        \o Literal(SectionHeaders[(q + 1) \div 2])
        \o (IF q % 2 = 1 THEN <<AtLeast(Whitespace, 0)>> ELSE <<One({":"})>>)]

\* the limit of the experience and skills texts
SectionLimit == 500

\* re.search(r'SKILLS|QUALIFICATIONS', section, re.IGNORECASE)
names_skills(section) ==
    \/ Contains(<<"s","k","i","l","l","s">>, Lower(section))
    \/ Contains(<<"q","u","a","l","i","f","i","c","a","t","i","o","n","s">>, Lower(section))

\* experience: sections[1].strip()[:500] when there is a section after the first
experience_of(sections) ==
    IF Len(sections) > 1 THEN Take(Strip(sections[2]), SectionLimit) ELSE <<>>

RECURSIVE skills_loop(_, _)
\* the loop over the sections: the section after the first one that names skills
skills_loop(sections, i) ==
    IF i > Len(sections) THEN <<>>
    ELSE IF names_skills(sections[i - 1]) THEN Take(Strip(sections[i]), SectionLimit)
    ELSE skills_loop(sections, i + 1)

\* if not skills_section and len(sections) > 2: the last section
skills_or_last(sections, skills_section) ==
    IF skills_section = <<>> /\ Len(sections) > 2
    THEN Take(Strip(sections[Len(sections)]), SectionLimit)
    ELSE skills_section

\* what the function returns for the sections of the text
experience_and_skills(sections) ==
    [experience |-> experience_of(sections),
     skills |-> skills_or_last(sections, skills_loop(sections, 2))]

extract_experience_and_skills(text) ==
    experience_and_skills(split_from(text, section_pattern, 1))

----------------------------------------------------------------------------
(* count_relevant_keywords and process_resume *)

RECURSIVE keyword_loop_count_all(_, _, _, _)
\* keyword_loop with count incremented for every keyword
keyword_loop_count_all(text_lower, kws, count, found_keywords) ==
    IF kws = <<>> THEN [count |-> count, found_keywords |-> found_keywords]
    ELSE IF Contains(Lower(Head(kws)), text_lower)
         THEN keyword_loop_count_all(text_lower, Tail(kws), count + 1,
                                     Append(found_keywords, Head(kws)))
         ELSE keyword_loop_count_all(text_lower, Tail(kws), count + 1, found_keywords)

RECURSIVE keyword_loop(_, _, _, _)
\* for keyword in keywords: if keyword.lower() in text_lower: ...
keyword_loop(text_lower, kws, count, found_keywords) ==
    IF kws = <<>> THEN [count |-> count, found_keywords |-> found_keywords]
    ELSE IF Contains(Lower(Head(kws)), text_lower)
         THEN keyword_loop(text_lower, Tail(kws), count + 1,
                           Append(found_keywords, Head(kws)))
         ELSE keyword_loop(text_lower, Tail(kws), count, found_keywords)

count_relevant_keywords(text, kws) == keyword_loop(Lower(text), kws, 0, <<>>)

\* relevance with more than two keywords required
relevance_strict(keyword_count) == keyword_count > 2

\* is_relevant = keyword_count >= 2
relevance(keyword_count) == keyword_count >= 2

\* the record built from a text that was extracted
resume_record(text, kws, file_name) ==
    LET contact == extract_contact_info(text)
        parts == extract_experience_and_skills(text)
        m == count_relevant_keywords(text, kws)
    IN  [name |-> contact.name,
         email |-> contact.email,
         phone |-> contact.phone,
         experience |-> parts.experience,
         skills |-> parts.skills,
         keyword_count |-> m.count,
         found_keywords |-> Join(<<",", " ">>, m.found_keywords),
         is_relevant |-> relevance(m.count),
         file_name |-> file_name]

\* process_resume without the return of None for an empty text
process_resume_no_skip(entry, kws) ==
    <<resume_record(extract_text_from_pdf(entry.doc), kws, entry.file_name)>>

\* process_resume: <<>> stands for None, <<r>> for the record r
process_resume(entry, kws) ==
    LET text == extract_text_from_pdf(entry.doc)
    IN  IF text = <<>> THEN <<>> ELSE <<resume_record(text, kws, entry.file_name)>>

----------------------------------------------------------------------------
(* classify_candidates *)

SurveyFields == {"availability", "courses", "visa"}
Unknown == <<"U","n","k","n","o","w","n">>

RECURSIVE merge_left_first_match(_, _)
\* merge_left with only the first right row of a key kept
merge_left_first_match(left, right) ==
    IF left = <<>> THEN <<>>
    ELSE LET l == Head(left)
             matches == SelectSeq(right.rows, LAMBDA r : r.email = l.email)
             others == right.columns \ {"email"}
         IN  (IF matches = <<>> THEN << l @@ [c \in others |-> NaN] >>
              ELSE << l @@ [c \in others |-> matches[1][c]] >>)
             \o merge_left_first_match(Tail(left), right)

RECURSIVE merge_left(_, _)
\* pd.merge(resumes_df, survey_df, on="email", how="left"): the left rows in
\* order, each once per right row with its key, or once with missing cells
merge_left(left, right) ==
    IF left = <<>> THEN <<>>
    ELSE LET l == Head(left)
             matches == SelectSeq(right.rows, LAMBDA r : r.email = l.email)
             others == right.columns \ {"email"}
         IN  (IF matches = <<>> THEN << l @@ [c \in others |-> NaN] >>
              ELSE [i \in 1..Len(matches) |-> l @@ [c \in others |-> matches[i][c]]])
             \o merge_left(Tail(left), right)

\* survey_df is not None and not survey_df.empty
has_survey(survey) ==
    ~survey.is_none /\ survey.rows # <<>> /\ survey.columns # {}

\* merged_df of classify_candidates
merged_rows(resumes, survey) ==
    IF has_survey(survey) THEN merge_left(resumes, survey)
    ELSE [i \in 1..Len(resumes) |-> resumes[i] @@ [c \in SurveyFields |-> Unknown]]

\* "col" in row and pd.notna(row["col"])
available(row, col) == col \in DOMAIN row /\ notna(row[col])

availability_score(row) ==
    IF available(row, "availability")
    THEN LET availability == Lower(row.availability)
         IN  IF availability = <<"f","u","l","l"," ","a","v","a","i","l","a","b","i","l","i","t","y">>
             THEN 4
             ELSE IF availability = <<"m","o","r","n","i","n","g">> THEN 3
             ELSE IF availability = <<"n","i","g","h","t">> THEN 1
             ELSE 1
    ELSE 0

\* courses_score with every matching category counted
courses_score_double_count(row) ==
    IF available(row, "courses")
    THEN LET courses == Lower(row.courses)
         IN  (IF \/ Contains(<<"f","o","o","d"," ","h","a","n","d","l","i","n","g">>, courses)
                 \/ Contains(<<"h","a","c","c","p">>, courses)
              THEN 3 ELSE 0)
             + (IF Contains(<<"f","o","o","d"," ","s","a","f","e","t","y">>, courses)
                THEN 2 ELSE 0)
             + (IF Contains(<<"c","u","s","t","o","m","e","r"," ","s","e","r","v","i","c","e">>,
                            courses) THEN 2 ELSE 0)
    ELSE 0

courses_score(row) ==
    IF available(row, "courses")
    THEN LET courses == Lower(row.courses)
         IN  IF \/ Contains(<<"f","o","o","d"," ","h","a","n","d","l","i","n","g">>, courses)
                \/ Contains(<<"h","a","c","c","p">>, courses)
             THEN 3
             ELSE IF Contains(<<"f","o","o","d"," ","s","a","f","e","t","y">>, courses) THEN 2
             ELSE IF Contains(<<"c","u","s","t","o","m","e","r"," ","s","e","r","v","i","c","e">>,
                              courses) THEN 2
             ELSE IF courses # <<"n","o","n","e">> /\ courses # <<"u","n","k","n","o","w","n">>
             THEN 1
             ELSE 0
    ELSE 0

visa_score(row) ==
    IF available(row, "visa")
    THEN LET visa_status == Lower(row.visa)
         IN  IF visa_status = <<"s","t","a","m","p"," ","4">> THEN 3
             ELSE IF visa_status = <<"s","t","a","m","p"," ","2">> THEN 1
             ELSE IF visa_status = <<"i","r","i","s","h">> THEN 4
             ELSE IF visa_status = <<"u","e">> THEN 3
             ELSE IF visa_status = <<"s","t","a","m","p"," ","1","g">> THEN 2
             ELSE IF visa_status = <<"s","t","a","m","p"," ","1">> THEN 0
             ELSE 0
    ELSE 0

\* resume_score without the cap of five keyword points
resume_score_uncapped(row) ==
    (IF row.is_relevant THEN 2 ELSE 0) + row.keyword_count

resume_score(row) ==
    (IF row.is_relevant THEN 2 ELSE 0) + Min(row.keyword_count, 5)

calculate_priority(row) ==
    resume_score(row) + availability_score(row) + courses_score(row) + visa_score(row)

\* get_priority_level with High from 8 points
get_priority_level_high_from_8(score) ==
    IF score >= 8 THEN "High"
    ELSE IF score >= 6 THEN "Medium"
    ELSE "Low"

\* get_priority_level with High above 10 only
get_priority_level_strict(score) ==
    IF score > 10 THEN "High"
    ELSE IF score >= 6 THEN "Medium"
    ELSE "Low"

get_priority_level(score) ==
    IF score >= 10 THEN "High"
    ELSE IF score >= 6 THEN "Medium"
    ELSE "Low"

\* merged_df["priority_score"] = ...; merged_df["priority"] = ..., for one row
classify_row(row) ==
    LET scored == row @@ [c \in {"priority_score"} |-> calculate_priority(row)]
    IN  scored @@ [c \in {"priority"} |-> get_priority_level(scored.priority_score)]

\* classify_candidates, when the merge does not raise
classify_candidates(resumes, survey) ==
    LET merged == merged_rows(resumes, survey)
    IN  [i \in 1..Len(merged) |-> classify_row(merged[i])]

\* pd.merge raises KeyError when the right frame has no column "email"
merge_raises(survey) == has_survey(survey) /\ "email" \notin survey.columns

----------------------------------------------------------------------------
(* load_survey_responses, and the e-mails of main *)

load_survey_responses(file) ==
    IF file.exists /\ file.parses THEN file.table ELSE NoneFrame

\* os.getenv(name, default)
getenv(env, name, default) == IF env[name] = Unset THEN default ELSE env[name]

\* int(s) raises ValueError: s holds something else than digits between white
\* space (no sign and no underscore occurs in the values of the model)
int_raises(s) == Strip(s) = <<>> \/ \E i \in 1..Len(Strip(s)) : Strip(s)[i] \notin Digits

\* send_email without the return of False for a candidate without e-mail address
send_email_to_any_address(candidate, env) ==
    IF int_raises(getenv(env, "SMTP_PORT", <<"5","8","7">>))
    THEN [raises |-> TRUE, result |-> FALSE]
    ELSE [raises |-> FALSE, result |-> TRUE]

\* send_survey_email and send_interview_email: False without e-mail address, a
\* ValueError of the port number outside the try block, else the simulated
\* sending, which logs and returns True
send_email(candidate, env) ==
    IF candidate.email = <<>> THEN [raises |-> FALSE, result |-> FALSE]
    ELSE IF int_raises(getenv(env, "SMTP_PORT", <<"5","8","7">>))
    THEN [raises |-> TRUE, result |-> FALSE]
    ELSE [raises |-> FALSE, result |-> TRUE]

\* what the call is logged as: the address, the record and the return value
logged_call(kind, candidate, result) ==
    [kind |-> kind, email |-> candidate.email, file_name |-> candidate.file_name,
     result |-> result]

RECURSIVE send_loop(_, _, _, _)
\* a for loop that calls send_..._email on each candidate: the calls that
\* returned, and whether one raised and ended the loop
send_loop(kind, candidates, env, calls) ==
    IF candidates = <<>> THEN [calls |-> calls, raised |-> FALSE]
    ELSE IF send_email(Head(candidates), env).raises THEN [calls |-> calls, raised |-> TRUE]
    ELSE send_loop(kind, Tail(candidates), env,
                   Append(calls, logged_call(kind, Head(candidates),
                                             send_email(Head(candidates), env).result)))

\* for _, candidate in resumes_df[resumes_df["is_relevant"] == True].iterrows()
survey_emails(resumes, env) ==
    send_loop("survey", SelectSeq(resumes, LAMBDA c : c.is_relevant = TRUE), env, <<>>)

\* for _, candidate in classified_df.iterrows():
\*     if candidate["is_relevant"] and pd.notna(candidate["priority"])
interview_emails(rows, env) ==
    send_loop("interview",
              SelectSeq(rows, LAMBDA c : c.is_relevant /\ c.priority \in {"High", "Medium", "Low"}),
              env, <<>>)

----------------------------------------------------------------------------
(* main *)

Init ==
    /\ keywords_file \in KeywordFiles
    /\ input_dir \in UNION {Listings(n) : n \in 0..MaxFiles}
    /\ survey_file \in SurveyFiles
    /\ environ \in Environs
    /\ pc = "load_keywords"
    /\ keywords = <<>>
    /\ pdf_files = <<>>
    /\ idx = 1
    /\ resume_data = <<>>
    /\ extract_calls = [f \in {input_dir[i].file_name : i \in 1..Len(input_dir)} |-> 0]
    /\ survey_df = NoneFrame
    /\ classified_df = <<>>
    /\ sent = <<>>
    /\ call = [fn |-> "main"]
    /\ ret = <<>>

\* keywords = load_keywords()
LoadKeywords ==
    /\ pc = "load_keywords"
    /\ keywords' = load_keywords(keywords_file)
    /\ pc' = "list_folder"
    /\ UNCHANGED <<keywords_file, input_dir, survey_file, environ, pdf_files, idx, resume_data,
                   extract_calls, survey_df, classified_df, sent, call, ret>>

\* monitor_input_folder up to its loop; without PDF it returns [] and main returns
ListFolder ==
    /\ pc = "list_folder"
    /\ pdf_files' = SelectSeq(input_dir,
                              LAMBDA e : EndsWith(Lower(e.file_name), <<".","p","d","f">>))
    /\ idx' = 1
    /\ pc' = IF pdf_files' = <<>> THEN "done" ELSE "process"
    /\ UNCHANGED <<keywords_file, input_dir, survey_file, environ, keywords, resume_data,
                   extract_calls, survey_df, classified_df, sent, call, ret>>

\* one turn of the loop of monitor_input_folder
ProcessNext ==
    /\ pc = "process"
    /\ idx <= Len(pdf_files)
    /\ resume_data' = resume_data \o process_resume(pdf_files[idx], keywords)
    /\ extract_calls' = [extract_calls EXCEPT ![pdf_files[idx].file_name] = @ + 1]
    /\ idx' = idx + 1
    /\ UNCHANGED <<keywords_file, input_dir, survey_file, environ, pc, keywords, pdf_files,
                   survey_df, classified_df, sent, call, ret>>

\* monitor_input_folder returns; main returns early without resume data
MonitorReturn ==
    /\ pc = "process"
    /\ idx > Len(pdf_files)
    /\ pc' = IF resume_data = <<>> THEN "done" ELSE "survey_emails"
    /\ UNCHANGED <<keywords_file, input_dir, survey_file, environ, keywords, pdf_files, idx,
                   resume_data, extract_calls, survey_df, classified_df, sent, call, ret>>

\* the survey e-mails to the relevant candidates; a ValueError of
\* send_survey_email is caught nowhere and ends main
SendSurveyEmails ==
    /\ pc = "survey_emails"
    /\ sent' = sent \o survey_emails(resume_data, environ).calls
    /\ pc' = IF survey_emails(resume_data, environ).raised THEN "raised" ELSE "load_survey"
    /\ UNCHANGED <<keywords_file, input_dir, survey_file, environ, keywords, pdf_files, idx,
                   resume_data, extract_calls, survey_df, classified_df, call, ret>>

\* LoadSurveyResponses with the interview invitations sent here, before the
\* classification
LoadSurveyThenInvite ==
    /\ pc = "load_survey"
    /\ survey_df' = load_survey_responses(survey_file)
    /\ sent' = sent \o send_loop("interview",
                                 SelectSeq(resume_data, LAMBDA c : c.is_relevant),
                                 environ, <<>>).calls
    /\ pc' = "classify"
    /\ UNCHANGED <<keywords_file, input_dir, survey_file, environ, keywords, pdf_files, idx,
                   resume_data, extract_calls, classified_df, call, ret>>

\* survey_df = load_survey_responses()
LoadSurveyResponses ==
    /\ pc = "load_survey"
    /\ survey_df' = load_survey_responses(survey_file)
    /\ pc' = "classify"
    /\ UNCHANGED <<keywords_file, input_dir, survey_file, environ, keywords, pdf_files, idx,
                   resume_data, extract_calls, classified_df, sent, call, ret>>

\* classified_df = classify_candidates(resumes_df, survey_df); a KeyError of the
\* merge is caught nowhere and ends main
ClassifyCandidates ==
    /\ pc = "classify"
    /\ IF merge_raises(survey_df)
       THEN pc' = "raised" /\ UNCHANGED classified_df
       ELSE /\ classified_df' = classify_candidates(resume_data, survey_df)
            /\ pc' = "interview_emails"
    /\ UNCHANGED <<keywords_file, input_dir, survey_file, environ, keywords, pdf_files, idx,
                   resume_data, extract_calls, survey_df, sent, call, ret>>

\* the interview e-mails; a ValueError of send_interview_email ends main
SendInterviewEmails ==
    /\ pc = "interview_emails"
    /\ sent' = sent \o interview_emails(classified_df, environ).calls
    /\ pc' = IF interview_emails(classified_df, environ).raised THEN "raised" ELSE "visualize"
    /\ UNCHANGED <<keywords_file, input_dir, survey_file, environ, keywords, pdf_files, idx,
                   resume_data, extract_calls, survey_df, classified_df, call, ret>>

\* visualize_results catches its own exceptions; main then returns
VisualizeResults ==
    /\ pc = "visualize"
    /\ pc' = "done"
    /\ UNCHANGED <<keywords_file, input_dir, survey_file, environ, keywords, pdf_files, idx,
                   resume_data, extract_calls, survey_df, classified_df, sent, call, ret>>

Next ==
    \/ LoadKeywords
    \/ ListFolder
    \/ ProcessNext
    \/ MonitorReturn
    \/ SendSurveyEmails
    \/ LoadSurveyResponses
    \/ ClassifyCandidates
    \/ SendInterviewEmails
    \/ VisualizeResults

Spec == Init /\ [][Next]_vars

----------------------------------------------------------------------------
(* Single calls of the scoring functions and of the keyword matcher, on    *)
(* inputs drawn from bounded sets.                                         *)

\* the state of main while a single function is called on its own
NoRun ==
    /\ keywords_file = [exists |-> FALSE, lines |-> <<>>]
    /\ input_dir = <<>>
    /\ survey_file = [exists |-> FALSE, parses |-> FALSE, table |-> NoneFrame]
    /\ environ = [SMTP_PORT |-> Unset]
    /\ keywords = <<>>
    /\ pdf_files = <<>>
    /\ idx = 1
    /\ resume_data = <<>>
    /\ extract_calls = <<>>
    /\ survey_df = NoneFrame
    /\ classified_df = <<>>
    /\ sent = <<>>

AvailabilityCells ==
    {NaN, Unknown,
     <<"f","u","l","l"," ","a","v","a","i","l","a","b","i","l","i","t","y">>,
     <<"F","u","l","l"," ","A","v","a","i","l","a","b","i","l","i","t","y">>,
     <<"M","o","r","n","i","n","g">>,
     <<"n","i","g","h","t">>,
     <<"w","e","e","k","e","n","d","s">>}

CoursesCells ==
    {NaN, Unknown,
     <<"N","o","n","e">>,
     <<"H","A","C","C","P"," ","c","e","r","t","i","f","i","e","d">>,
     <<"F","o","o","d"," ","S","a","f","e","t","y"," ","L","e","v","e","l"," ","2">>,
     <<"C","u","s","t","o","m","e","r"," ","S","e","r","v","i","c","e">>,
     <<"f","o","o","d"," ","s","a","f","e","t","y"," ","a","n","d"," ","f","o","o","d"," ",
       "h","a","n","d","l","i","n","g">>,
     <<"b","a","r","i","s","t","a"," ","c","o","u","r","s","e">>}

VisaCells ==
    {NaN, Unknown,
     <<"i","r","i","s","h">>,
     <<"S","t","a","m","p"," ","4">>,
     <<"U","E">>,
     <<"s","t","a","m","p"," ","1","g">>,
     <<"s","t","a","m","p"," ","2">>,
     <<"s","t","a","m","p"," ","1">>,
     <<"b","r","i","t","i","s","h">>}

\* joined rows, reduced to the columns calculate_priority reads
ScoreRows ==
    {[keyword_count |-> k, is_relevant |-> relevance(k),
      availability |-> a, courses |-> c, visa |-> v] :
        k \in 0..MaxKc, a \in AvailabilityCells, c \in CoursesCells, v \in VisaCells}

InitScore ==
    /\ NoRun
    /\ pc = "call"
    /\ call \in {[fn |-> "classify_row", row |-> r] : r \in ScoreRows}
    /\ ret = <<>>

\* merged_df.apply(calculate_priority, axis=1) and .apply(get_priority_level), one row
ScoreRow ==
    /\ pc = "call"
    /\ call.fn = "classify_row"
    /\ ret' = <<classify_row(call.row)>>
    /\ pc' = "returned"
    /\ UNCHANGED <<keywords_file, input_dir, survey_file, environ, keywords, pdf_files, idx,
                   resume_data, extract_calls, survey_df, classified_df, sent, call>>

NextScore == ScoreRow

SpecScore == InitScore /\ [][NextScore]_vars

\* keyword lists: what load_keywords returns, and lists with repeated, upper-case
\* and unmatched entries
KeywordPool ==
    {kw_cook, <<"C","A","S","H","I","E","R">>, <<"b","a","r","i","s","t","a">>, <<"e","e">>}

\* keywords.txt with the same term on two lines
KeywordLinesRepeated == << <<"c","o","o","k","\n">>, <<" ","C","o","o","k","\n">> >>

KeywordLists ==
    {load_keywords(f) : f \in KeywordFiles}
    \cup {load_keywords([exists |-> TRUE, lines |-> KeywordLinesRepeated])}
    \cup UNION {[1..n -> KeywordPool] : n \in 0..MaxKeywords}

MatchTexts == {TextAnn, TextBoPage1 \o TextBoPage2, <<"K","e","e","p","e","r">>}

InitMatch ==
    /\ NoRun
    /\ pc = "call"
    /\ call \in {[fn |-> "count_relevant_keywords", text |-> t, keywords |-> k] :
                    t \in MatchTexts, k \in KeywordLists}
    /\ ret = <<>>

\* keyword_count, found_keywords = count_relevant_keywords(text, keywords)
MatchKeywords ==
    /\ pc = "call"
    /\ call.fn = "count_relevant_keywords"
    /\ ret' = <<count_relevant_keywords(call.text, call.keywords)>>
    /\ pc' = "returned"
    /\ UNCHANGED <<keywords_file, input_dir, survey_file, environ, keywords, pdf_files, idx,
                   resume_data, extract_calls, survey_df, classified_df, sent, call>>

NextMatch == MatchKeywords

SpecMatch == InitMatch /\ [][NextMatch]_vars

\* pieces of resume text: lines with and without the words the section code looks
\* for, section headers, and a word longer than the limit of a section
SectionPieces ==
    {<<"A","n","n"," ","L","e","e">>,
     <<"\n","S","K","I","L","L","S","\n">>,
     <<"\n","E","x","p","e","r","i","e","n","c","e",":"," ">>,
     <<" ","K","e","y"," ","s","k","i","l","l","s",":"," ">>,
     <<"c","o","o","k",","," ","c","a","s","h","i","e","r">>,
     <<"\n","E","D","U","C","A","T","I","O","N","\n">>,
     [i \in 1..(SectionLimit + 1) |-> "x"]}

\* the texts of at most MaxPieces pieces
SectionTexts == {Concat(t) : t \in UNION {[1..n -> SectionPieces] : n \in 0..MaxPieces}}

InitSections ==
    /\ NoRun
    /\ pc = "call"
    /\ call \in {[fn |-> "extract_experience_and_skills", text |-> t] : t \in SectionTexts}
    /\ ret = <<>>

\* experience, skills = extract_experience_and_skills(text, keywords)
ExtractSections ==
    /\ pc = "call"
    /\ call.fn = "extract_experience_and_skills"
    /\ ret' = <<extract_experience_and_skills(call.text)>>
    /\ pc' = "returned"
    /\ UNCHANGED <<keywords_file, input_dir, survey_file, environ, keywords, pdf_files, idx,
                   resume_data, extract_calls, survey_df, classified_df, sent, call>>

NextSections == ExtractSections

SpecSections == InitSections /\ [][NextSections]_vars

\* lines of resume text: a blank line, a line with more than three words, an
\* e-mail address and a phone number
ContactLines ==
    {<<>>,
     <<"A","n","n"," "," ","B","."," ","L","e","e"," ","J","r">>,
     <<"a","@","x",".","c","o","m">>,
     <<"0","8","7"," ","1","2","3"," ","4","5","6","7">>}

\* the texts of at most MaxLines lines
ContactTexts ==
    {Join(<<"\n">>, t) : t \in UNION {[1..n -> ContactLines] : n \in 0..MaxLines}}

InitContact ==
    /\ NoRun
    /\ pc = "call"
    /\ call \in {[fn |-> "extract_contact_info", text |-> t] : t \in ContactTexts}
    /\ ret = <<>>

\* name, email, phone = extract_contact_info(text)
ExtractContact ==
    /\ pc = "call"
    /\ call.fn = "extract_contact_info"
    /\ ret' = <<extract_contact_info(call.text)>>
    /\ pc' = "returned"
    /\ UNCHANGED <<keywords_file, input_dir, survey_file, environ, keywords, pdf_files, idx,
                   resume_data, extract_calls, survey_df, classified_df, sent, call>>

NextContact == ExtractContact

SpecContact == InitContact /\ [][NextContact]_vars

----------------------------------------------------------------------------
(* Properties. *)

\* classify_candidates has returned in this run
Classified ==
    \/ pc \in {"interview_emails", "visualize"}
    \/ pc = "done" /\ resume_data # <<>>
    \/ pc = "raised" /\ classified_df # <<>>

\* the port number of the environment makes the e-mail functions raise
PortRaises == int_raises(getenv(environ, "SMTP_PORT", <<"5","8","7">>))

\* the output rows of the resume record r
RowsOf(r) == SelectSeq(classified_df, LAMBDA row : row.file_name = r.file_name)

\* the survey responses with the e-mail address of the resume record r
ResponsesFor(r) ==
    IF has_survey(survey_df) /\ "email" \in survey_df.columns
    THEN SelectSeq(survey_df.rows, LAMBDA q : q.email = r.email)
    ELSE <<>>

\* C1: the output of classify_candidates has at least as many rows as the resume
\* batch, every resume record appears in it, and a record without survey response
\* for its e-mail has availability, courses and visa equal to "Unknown".
C1_LeftJoinUnknown ==
    Classified =>
        /\ Len(classified_df) >= Len(resume_data)
        /\ \A i \in 1..Len(resume_data) :
              LET rows == RowsOf(resume_data[i])
              IN  /\ rows # <<>>
                  /\ ResponsesFor(resume_data[i]) = <<>> =>
                        \A j \in 1..Len(rows) : \A c \in SurveyFields :
                            c \in DOMAIN rows[j] /\ rows[j][c] = Unknown

\* C2: without survey data the "Unknown" defaults add no points, so that a
\* relevant resume with keyword_count 3 scores 2+3 = 5 and is Low.
C2_NoSurveyScore ==
    Classified /\ ~has_survey(survey_df) =>
        \A j \in 1..Len(classified_df) :
            LET row == classified_df[j]
            IN  /\ row.priority_score =
                      (IF row.is_relevant THEN 2 ELSE 0) + Min(row.keyword_count, 5)
                /\ row.is_relevant /\ row.keyword_count = 3 =>
                      row.priority_score = 5 /\ row.priority = "Low"

\* the rule table: exact values of availability and visa, in lower case
AvailabilityTable ==
    {<< <<"f","u","l","l"," ","a","v","a","i","l","a","b","i","l","i","t","y">>, 4 >>,
     << <<"m","o","r","n","i","n","g">>, 3 >>,
     << <<"n","i","g","h","t">>, 1 >>}
VisaTable ==
    {<< <<"i","r","i","s","h">>, 4 >>,
     << <<"s","t","a","m","p"," ","4">>, 3 >>,
     << <<"u","e">>, 3 >>,
     << <<"s","t","a","m","p"," ","1","g">>, 2 >>,
     << <<"s","t","a","m","p"," ","2">>, 1 >>,
     << <<"s","t","a","m","p"," ","1">>, 0 >>}
\* the training categories in their order of priority: substrings and points
TrainingTable ==
    << << {<<"f","o","o","d"," ","h","a","n","d","l","i","n","g">>, <<"h","a","c","c","p">>}, 3 >>,
       << {<<"f","o","o","d"," ","s","a","f","e","t","y">>}, 2 >>,
       << {<<"c","u","s","t","o","m","e","r"," ","s","e","r","v","i","c","e">>}, 2 >> >>

\* the points of the entry of table with this key, or other when there is none
TablePoints(table, key, other) ==
    IF \E e \in table : e[1] = key THEN (CHOOSE e \in table : e[1] = key)[2] ELSE other

\* the points of the first training category found in the text
TrainingPoints(text) ==
    LET hits == {i \in 1..Len(TrainingTable) :
                    \E w \in TrainingTable[i][1] : Contains(w, text)}
    IN  IF hits # {} THEN TrainingTable[CHOOSE i \in hits : \A k \in hits : i <= k][2]
        ELSE IF text \notin {<<"n","o","n","e">>, <<"u","n","k","n","o","w","n">>} THEN 1
        ELSE 0

\* C3: for a row whose survey fields are present, priority_score is the sum of the
\* relevance, keyword density, availability, training and visa points of the rule
\* table, matched case-insensitively, the training categories first match first;
\* keyword_count 3, relevant, "full availability", "HACCP certified", "irish"
\* gives 16 and High.
C3_ScoreIsSumOfGroups ==
    pc = "returned" /\ call.fn = "classify_row" =>
        LET row == call.row
            out == ret[1]
        IN  /\ (\A c \in SurveyFields : row[c] # NaN) =>
                  out.priority_score =
                      (IF row.is_relevant THEN 2 ELSE 0)
                      + Min(row.keyword_count, 5)
                      + TablePoints(AvailabilityTable, Lower(row.availability), 1)
                      + TrainingPoints(Lower(row.courses))
                      + TablePoints(VisaTable, Lower(row.visa), 0)
            /\ ( /\ row.keyword_count = 3
                 /\ row.is_relevant
                 /\ row.availability = SurveyRowFull.availability
                 /\ row.courses = SurveyRowFull.courses
                 /\ row.visa = SurveyRowFull.visa ) =>
                  out.priority_score = 16 /\ out.priority = "High"

C3_Witness ==
    /\ pc = "returned"
    /\ call.fn = "classify_row"
    /\ call.row.keyword_count = 3
    /\ call.row.availability = SurveyRowFull.availability
    /\ call.row.courses = SurveyRowFull.courses
    /\ call.row.visa = SurveyRowFull.visa
    /\ ret[1].priority_score = 16

\* C4: priority is High exactly when priority_score >= 10, Medium exactly when
\* 6 <= priority_score < 10 and Low exactly when priority_score < 6, in every
\* classified row.
C4_Thresholds ==
    pc = "returned" /\ call.fn = "classify_row" =>
        LET score == ret[1].priority_score
            priority == ret[1].priority
        IN  /\ priority \in {"High", "Medium", "Low"}
            /\ priority = "High" <=> score >= 10
            /\ priority = "Medium" <=> (6 <= score /\ score < 10)
            /\ priority = "Low" <=> score < 6

C4_Witness ==
    /\ pc = "returned"
    /\ call.fn = "classify_row"
    /\ ret[1].priority_score = 10
    /\ ret[1].priority = "High"

\* C5: keyword_count is the number of entries of matched_keywords, and every
\* entry of matched_keywords is an entry of the keyword list.
C5_CountIsLength ==
    pc = "returned" /\ call.fn = "count_relevant_keywords" =>
        /\ ret[1].count = Len(ret[1].found_keywords)
        /\ \A i \in 1..Len(ret[1].found_keywords) :
              ret[1].found_keywords[i] \in Range(call.keywords)

C5_Witness ==
    /\ pc = "returned"
    /\ call.fn = "count_relevant_keywords"
    /\ Len(call.keywords) = 3
    /\ ret[1].count = 2
    /\ Len(ret[1].found_keywords) = 2

\* C6: in every resume record is_relevant is true exactly when keyword_count >= 2.
C6_RelevantIffTwo ==
    \A i \in 1..Len(resume_data) :
        resume_data[i].is_relevant <=> resume_data[i].keyword_count >= 2

C6_Witness ==
    /\ \E i \in 1..Len(resume_data) :
          resume_data[i].keyword_count = 2 /\ resume_data[i].is_relevant
    /\ \E i \in 1..Len(resume_data) :
          resume_data[i].keyword_count = 1 /\ ~resume_data[i].is_relevant

\* the document of a directory entry yields text
Readable(e) == e.doc.opens /\ \E i \in 1..Len(e.doc.pages) : e.doc.pages[i] # <<>>

\* the file names of a sequence of entries, records or rows
NamesOf(seq) == [i \in 1..Len(seq) |-> seq[i].file_name]

\* C7: an unreadable document is extracted once and never again, it is absent from
\* the resume records and from the output, every readable document of the batch
\* is present in both, and no exception comes of it.
C7_UnreadableSkipped ==
    /\ \A f \in DOMAIN extract_calls : extract_calls[f] <= 1
    /\ pc = "process" =>
          NamesOf(resume_data) = NamesOf(SelectSeq(SubSeq(pdf_files, 1, idx - 1), Readable))
    /\ pc \notin {"load_keywords", "list_folder", "process"} =>
          /\ NamesOf(resume_data) = NamesOf(SelectSeq(pdf_files, Readable))
          /\ \A i \in 1..Len(pdf_files) : extract_calls[pdf_files[i].file_name] = 1
    /\ Classified =>
          Range(NamesOf(classified_df)) = Range(NamesOf(SelectSeq(pdf_files, Readable)))
    /\ pc = "raised" => merge_raises(survey_df) \/ PortRaises

C7_Witness ==
    /\ pc = "done"
    /\ \E i \in 1..Len(pdf_files) : ~Readable(pdf_files[i])
    /\ \E i \in 1..Len(pdf_files) : Readable(pdf_files[i])
    /\ classified_df # <<>>

\* C8: a resume record whose e-mail address n >= 1 survey responses share has
\* exactly n output rows, one per response in their order, each with the fields
\* of its response and with the score and tier of its own resume and survey fields.
C8_OneToMany ==
    Classified =>
        \A i \in 1..Len(resume_data) :
            LET r == resume_data[i]
                responses == ResponsesFor(r)
                rows == RowsOf(r)
            IN  Len(responses) >= 1 =>
                  /\ Len(rows) = Len(responses)
                  /\ \A j \in 1..Len(responses) :
                        /\ \A c \in survey_df.columns \ {"email"} :
                              rows[j][c] = responses[j][c]
                        /\ rows[j].priority_score =
                              calculate_priority(r @@ WithoutColumn(responses[j], "email"))
                        /\ rows[j].priority = get_priority_level(rows[j].priority_score)

C8_Witness ==
    /\ Classified
    /\ \E i \in 1..Len(resume_data) :
          /\ Len(ResponsesFor(resume_data[i])) = 2
          /\ Len(RowsOf(resume_data[i])) = 2
          /\ RowsOf(resume_data[i])[1].priority # RowsOf(resume_data[i])[2].priority

\* C9: priority_score is an integer from 0 to 18 in every classified row.
C9_ScoreRange ==
    pc = "returned" /\ call.fn = "classify_row" => ret[1].priority_score \in 0..18

C9_Witness ==
    /\ pc = "returned"
    /\ call.fn = "classify_row"
    /\ call.row.keyword_count > 5
    /\ ret[1].priority_score = 18

\* C10: the keyword list loaded for a run holds at least one keyword, whether the
\* keyword file is absent, holds terms or holds none; when it is absent the list
\* is the default list of nine terms.
C10_KeywordSetNonEmpty ==
    pc # "load_keywords" =>
        /\ Len(keywords) >= 1
        /\ ~keywords_file.exists => keywords = DefaultKeywords /\ Len(keywords) = 9

\* monitor_input_folder has returned with resume records
RecordsBuilt == pc \notin {"load_keywords", "list_folder", "process"} /\ resume_data # <<>>

\* the steps before the e-mails, in their order: the keyword list before the first
\* record, all records before the survey is loaded, the survey before the
\* classified rows, which are one or more per record
StepsInOrder ==
    /\ pc \in {"load_keywords", "list_folder"} => resume_data = <<>>
    /\ pc = "load_keywords" => keywords = <<>>
    /\ ~RecordsBuilt => survey_df = NoneFrame /\ classified_df = <<>>
    /\ pc \in {"survey_emails", "load_survey", "classify"} => classified_df = <<>>
    /\ pc \in {"survey_emails", "load_survey"} => survey_df = NoneFrame
    /\ pc \in {"interview_emails", "visualize"} => Classified /\ RecordsBuilt
    /\ Classified => Len(classified_df) >= Len(resume_data)

\* C11 as stated: the keyword list, then the records of all documents, then the
\* merge with the survey, then score and priority of every row, and only then the
\* notifier and the reporter; no call of the notifier before the batch is classified.
C11_NotifyAfterClassify ==
    /\ StepsInOrder
    /\ sent # <<>> => Classified

\* C11 amended: the same order of steps, with the survey invitations called after
\* the records are built and before the survey is loaded and merged, and the
\* interview invitations and the reporter only after the batch is classified; no
\* invitation of either kind before the records are built.
C11_StepOrder ==
    /\ StepsInOrder
    /\ sent # <<>> => RecordsBuilt /\ pc # "survey_emails"
    /\ pc \in {"load_survey", "classify"} =>
          \A i \in 1..Len(sent) : sent[i].kind = "survey"
    /\ \A i \in 1..Len(sent) :
          /\ sent[i].kind = "interview" =>
                /\ Classified
                /\ \A j \in i..Len(sent) : sent[j].kind = "interview"
                /\ \E k \in 1..Len(classified_df) :
                      classified_df[k].file_name = sent[i].file_name
          /\ sent[i].kind = "survey" =>
                \E k \in 1..Len(resume_data) : resume_data[k].file_name = sent[i].file_name

C11_Witness ==
    /\ pc = "done"
    /\ \E i \in 1..Len(sent) : sent[i].kind = "survey" /\ sent[i].result
    /\ \E i \in 1..Len(sent) : sent[i].kind = "interview" /\ sent[i].result

\* C12: a send call that fails is only reported: main never ends by an exception
\* of a send call, once the survey e-mails are through the run goes on to the
\* classification, and every resume record has its output rows, with the score and
\* priority of its own fields, whether its send calls returned True or False.
C12_NotifyFailureHarmless ==
    /\ pc = "raised" => merge_raises(survey_df)
    /\ Classified =>
          /\ classified_df = classify_candidates(resume_data, survey_df)
          /\ \A i \in 1..Len(resume_data) : RowsOf(resume_data[i]) # <<>>
          /\ \A i \in 1..Len(sent) :
                \E k \in 1..Len(classified_df) :
                    /\ classified_df[k].file_name = sent[i].file_name
                    /\ classified_df[k].priority =
                          get_priority_level(calculate_priority(classified_df[k]))

\* C13: no input ends the run by an exception: main is never left by a raise,
\* whatever the documents, the keyword file, the survey file and the environment
\* are; and a run without readable document ends with no resume record, no
\* classified row and no send call.
C13_NothingFatal ==
    /\ pc # "raised"
    /\ pc = "done" /\ (\A i \in 1..Len(pdf_files) : ~Readable(pdf_files[i])) =>
          resume_data = <<>> /\ classified_df = <<>> /\ sent = <<>>

\* the row with "Unknown" in every survey field that its frame has no column for
WithUnknownFor(row) ==
    row @@ [c \in SurveyFields \ DOMAIN row |-> Unknown]

\* C14: a survey that lacks one of the columns email, availability, courses and
\* visa does not end the run by an exception, and every output row has the score
\* and the priority it would have with "Unknown" in the field that is missing.
C14_MissingColumnAsUnknown ==
    /\ ~(pc = "raised" /\ merge_raises(survey_df))
    /\ Classified /\ has_survey(survey_df) =>
          \A k \in 1..Len(classified_df) :
              /\ classified_df[k].priority_score =
                    calculate_priority(WithUnknownFor(classified_df[k]))
              /\ classified_df[k].priority =
                    get_priority_level(calculate_priority(WithUnknownFor(classified_df[k])))

\* a list that load_keywords can return: its entries are lines without white space
\* around them, not empty, in lower case
LoaderCanProduce(kws) ==
    \A i \in 1..Len(kws) :
        kws[i] # <<>> /\ Strip(kws[i]) = kws[i] /\ Lower(kws[i]) = kws[i]

\* C15: for a keyword list that the loader can produce, matched_keywords is the
\* keywords that occur in the text as substrings, case ignored, in the order of the
\* list, and no keyword is in it more than once.
C15_MatchedExactOrderedOnce ==
    pc = "returned" /\ call.fn = "count_relevant_keywords"
                    /\ LoaderCanProduce(call.keywords) =>
        /\ ret[1].found_keywords =
              SelectSeq(call.keywords, LAMBDA k : Contains(Lower(k), Lower(call.text)))
        /\ \A i, j \in 1..Len(ret[1].found_keywords) :
              i # j => ret[1].found_keywords[i] # ret[1].found_keywords[j]

\* the segments that the section pattern splits the text of the call into
SegmentsOfCall == split_from(call.text, section_pattern, 1)

\* the positions of the segments that follow a segment naming SKILLS or QUALIFICATIONS
AfterSkills(segments) == {i \in 2..Len(segments) : names_skills(segments[i - 1])}

\* C16: skills is the truncated segment after a boundary whose preceding segment
\* names SKILLS or QUALIFICATIONS, and without such a boundary it is the truncated
\* last segment, in every text with one or more recognized headers.
C16_SkillsOrLastSegment ==
    pc = "returned" /\ call.fn = "extract_experience_and_skills"
                    /\ Len(SegmentsOfCall) >= 2 =>
        IF AfterSkills(SegmentsOfCall) # {}
        THEN \E i \in AfterSkills(SegmentsOfCall) :
                 ret[1].skills = Take(Strip(SegmentsOfCall[i]), SectionLimit)
        ELSE ret[1].skills =
                 Take(Strip(SegmentsOfCall[Len(SegmentsOfCall)]), SectionLimit)

\* the non-empty lines of the text given to the call
NonEmptyLines == SelectSeq(SplitOn(call.text, "\n"), LAMBDA line : Strip(line) # <<>>)

\* the positions, among the first five of the given lines, of the lines that match
\* neither the e-mail nor the phone pattern
Qualifying(lines) ==
    {i \in 1..Min(5, Len(lines)) : /\ search(lines[i], email_pattern, 1) = <<>>
                                   /\ search(lines[i], phone_pattern, 1) = <<>>}

\* the first three whitespace-separated tokens of the first of the given lines
\* that is at one of the given positions
FirstTokens(lines, positions) ==
    Join(<<" ">>, Take(Words(lines[CHOOSE i \in positions : \A j \in positions : i <= j]), 3))

\* C17: the name is made of the first three tokens of the first line, among the
\* first five non-empty lines of the text, that matches neither the e-mail nor
\* the phone pattern; blank lines do not count toward the five, and the name is
\* empty only if none of these five lines qualifies
C17_NameFromFiveNonEmptyLines ==
    pc = "returned" /\ call.fn = "extract_contact_info" =>
        ret[1].name = IF Qualifying(NonEmptyLines) = {} THEN <<>>
                      ELSE FirstTokens(NonEmptyLines, Qualifying(NonEmptyLines))

\* C18: when no survey is supplied, or the survey supplied has no rows, every
\* output row has priority Medium or Low, whatever its keyword_count and
\* is_relevant: no candidate is classified High.
C18_NoHighWithoutSurvey ==
    Classified /\ (survey_df.is_none \/ survey_df.rows = <<>>) =>
        \A j \in 1..Len(classified_df) : classified_df[j].priority \in {"Medium", "Low"}

\* a survey with columns and no rows was loaded, and a relevant resume with five
\* keywords or more got the most points a resume can get without survey
C18_Witness ==
    /\ Classified
    /\ ~survey_df.is_none /\ survey_df.rows = <<>> /\ survey_df.columns # {}
    /\ \E j \in 1..Len(classified_df) :
          /\ classified_df[j].is_relevant /\ classified_df[j].keyword_count >= 5
          /\ classified_df[j].priority_score = 8
          /\ classified_df[j].priority = "Medium"

\* the resume records that the send call c was made for
CandidatesOf(c) ==
    {k \in 1..Len(resume_data) : /\ resume_data[k].file_name = c.file_name
                                  /\ resume_data[k].email = c.email}

\* C19: a survey or interview e-mail is sent only for a candidate whose
\* is_relevant is true and whose e-mail address is not empty: every send call
\* is made for a relevant record, and a call that sent the e-mail (returned
\* True) has a non-empty address.
C19_OnlyRelevantWithEmail ==
    \A i \in 1..Len(sent) :
        /\ CandidatesOf(sent[i]) # {}
        /\ \A k \in CandidatesOf(sent[i]) : resume_data[k].is_relevant
        /\ sent[i].result => sent[i].email # <<>>

\* a finished run that sent a survey and an interview e-mail for one record, and
\* in which the calls for a relevant record without address returned False
C19_Witness ==
    /\ pc = "done"
    /\ \E i, j \in 1..Len(sent) : /\ sent[i].kind = "survey" /\ sent[i].result
                                   /\ sent[j].kind = "interview" /\ sent[j].result
    /\ \E i, j \in 1..Len(sent) :
          /\ sent[i].kind = "survey" /\ sent[i].email = <<>> /\ ~sent[i].result
          /\ sent[j].kind = "interview" /\ sent[j].email = <<>> /\ ~sent[j].result

====
